---- MODULE Spec2Model ----
(***************************************************************************)
(* PrefixHQ: the prefix inventory scan (ScanWorker.run), the override      *)
(* store (prefix_db.json) and the main window's handlers that start a scan *)
(* and write user overrides.                                               *)
(*                                                                         *)
(* Text is modelled as a sequence of one-character strings, so that        *)
(* str.isdigit, str.lower, the substring test and Python's code-point      *)
(* ordering are computed and not assumed.                                  *)
(***************************************************************************)
EXTENDS Integers, Sequences, FiniteSets, TLC

VARIABLES
    fsExists,        \* paths of the directories that exist on disk
    fsDenied,        \* paths whose stat fails with EACCES, so that Path.exists raises
    fsRegistry,      \* "path" values of libraryfolders.vdf, in file order
    fsCompat,        \* root -> state of <root>/steamapps/compatdata
    fsDirs,          \* root -> entries of compatdata, in iterdir order
    fsManifests,     \* root -> appmanifest_*.acf files, in glob order
    fsShortcuts,     \* bytes of userdata/<user>/config/shortcuts.vdf
    dbFile,          \* DB_FILE (prefix_db.json)
    pc,              \* position of the ScanWorker thread in run()
    db,              \* run(): db
    api_cache,       \* run(): api_cache
    installed_games, \* run(): installed_games
    non_steam_games, \* run(): non_steam_games
    libraries,       \* run(): libraries
    libIdx,          \* run(): index of the library being walked (1-based)
    dirs,            \* run(): dirs still to visit in the current library
    prefixes,        \* run(): prefixes
    fetchLog,        \* calls of fetch_steam_name made by this run, with results
    saves,           \* number of save_db calls made by this run
    emitted,         \* finished events emitted by this run
    signals,         \* finished events queued for the window, not yet handled
    btn_refresh,     \* MainWindow.btn_refresh.isEnabled()
    all_prefixes,    \* MainWindow.all_prefixes
    scans,           \* number of ScanWorkers started so far
    edits,           \* number of changes made to DB_FILE from outside
    userNames,       \* appid -> name the user last gave in the rename dialog
    userStatus,      \* appid -> status the user last set with the toggle
    clicks,          \* number of rename and toggle actions done so far
    lastFailed,      \* appids whose every lookup failed in the scan before this one
    dedupIn,         \* input of the deduplication step checked in isolation
    dedupOut,        \* its result
    vdfPc,           \* shortcut decoding checked in isolation: "off", "raw", "parsed", "mapped"
    vdfShape,        \* how the bytes of fsShortcuts were put together
    vdfOut           \* what parse_binary_vdf returned for them

fsVars == <<fsExists, fsDenied, fsRegistry, fsCompat, fsDirs, fsManifests, fsShortcuts>>
runVars == <<pc, db, api_cache, installed_games, non_steam_games, libraries,
             libIdx, dirs, prefixes, fetchLog, saves, emitted>>
uiVars == <<btn_refresh, all_prefixes, scans, clicks, userNames, userStatus, lastFailed>>
dedupVars == <<dedupIn, dedupOut>>
vdfVars == <<vdfPc, vdfShape, vdfOut>>
pureVars == <<dedupVars, vdfVars>>
vars == <<fsVars, dbFile, runVars, signals, uiVars, edits, pureVars>>

----------------------------------------------------------------------------
(* Bounds of the model *)

MaxDirs == 2      \* prefix directories on disk, over all roots
MaxScans == 3     \* scans started in one session
MaxEdits == 1     \* changes made to the store file from outside
MaxClicks == 2    \* rename and toggle actions of the user in one session
MaxDedupLen == 3  \* records given to the deduplication step in isolation
MaxVdfLen == 4    \* bytes of a shortcuts file of arbitrary content
MaxMaps == 2      \* shortcut maps of a well-formed shortcuts file
MaxEntries == 2   \* entries of one shortcut map
MaxTail == 4      \* bytes that follow an entry of unknown type
MaxItems == 2     \* decoded records given to the id derivation in isolation
MaxRegistry == 3  \* "path" values of the registry file

----------------------------------------------------------------------------
(* Text *)

DigitChars == <<"0", "1", "2", "3", "4", "5", "6", "7", "8", "9">>
UpperChars == <<"A", "B", "C", "D", "E", "F", "G", "H", "I", "J", "K", "L", "M",
                "N", "O", "P", "Q", "R", "S", "T", "U", "V", "W", "X", "Y", "Z">>
LowerChars == <<"a", "b", "c", "d", "e", "f", "g", "h", "i", "j", "k", "l", "m",
                "n", "o", "p", "q", "r", "s", "t", "u", "v", "w", "x", "y", "z">>

Range(s) == {s[i] : i \in 1..Len(s)}
Pos(c, s) == CHOOSE i \in 1..Len(s) : s[i] = c

\* The characters U+0001 .. U+0008, and U+FFFD (what decoding puts for a byte
\* that is not UTF-8)
ControlChars == <<"^A", "^B", "^C", "^D", "^E", "^F", "^G", "^H">>
ReplacementChar == "U+FFFD"

\* ord(c) for the characters the model uses (anything else is the space)
Ord(c) ==
    IF c \in Range(DigitChars) THEN 47 + Pos(c, DigitChars)
    ELSE IF c \in Range(UpperChars) THEN 64 + Pos(c, UpperChars)
    ELSE IF c \in Range(LowerChars) THEN 96 + Pos(c, LowerChars)
    ELSE IF c \in Range(ControlChars) THEN Pos(c, ControlChars)
    ELSE IF c = "/" THEN 47
    ELSE IF c = "." THEN 46
    ELSE IF c = ReplacementChar THEN 65533
    ELSE 32

\* chr(b) for an ASCII byte of the model's alphabet
Chr(b) ==
    IF b \in 48..57 THEN DigitChars[b - 47]
    ELSE IF b \in 65..90 THEN UpperChars[b - 64]
    ELSE IF b \in 97..122 THEN LowerChars[b - 96]
    ELSE IF b \in 1..8 THEN ControlChars[b]
    ELSE IF b = 47 THEN "/"
    ELSE IF b = 46 THEN "."
    ELSE " "

\* bytes.decode("utf-8", "replace") for ASCII bytes and 0xFF, a byte no UTF-8
\* text contains: it becomes U+FFFD
decode(bytes) ==
    [i \in 1..Len(bytes) |-> IF bytes[i] >= 128 THEN ReplacementChar ELSE Chr(bytes[i])]

\* str.encode("utf-8"): one byte for ASCII, EF BF BD for U+FFFD
RECURSIVE encode(_)
encode(s) ==
    IF s = <<>> THEN <<>>
    ELSE (IF Head(s) = ReplacementChar THEN <<239, 191, 189>> ELSE <<Ord(Head(s))>>)
             \o encode(Tail(s))

\* str.isdigit(): non-empty and every character a digit
IsDigit(s) == Len(s) > 0 /\ \A i \in 1..Len(s) : s[i] \in Range(DigitChars)

\* str.lower()
LowerStr(s) ==
    [i \in 1..Len(s) |->
        IF s[i] \in Range(UpperChars) THEN LowerChars[Pos(s[i], UpperChars)] ELSE s[i]]

\* Python's s < t on str: lexicographic by code point, a proper prefix is smaller
RECURSIVE StrLess(_, _)
StrLess(s, t) ==
    IF t = <<>> THEN FALSE
    ELSE IF s = <<>> THEN TRUE
    ELSE IF Ord(Head(s)) # Ord(Head(t)) THEN Ord(Head(s)) < Ord(Head(t))
    ELSE StrLess(Tail(s), Tail(t))

\* Python's `sub in s` on str
Contains(sub, s) ==
    \E i \in 0..(Len(s) - Len(sub)) : SubSeq(s, i + 1, i + Len(sub)) = sub

AppIDWord == <<"A", "p", "p", "I", "D">>

\* f"AppID {appid}"
Placeholder(appid) == AppIDWord \o <<" ">> \o appid

----------------------------------------------------------------------------
(* Maps (Python dicts keyed by appid) *)

EmptyMap == [x \in {} |-> <<>>]
MapSet(m, k, v) == [x \in DOMAIN m \cup {k} |-> IF x = k THEN v ELSE m[x]]

IGNORE_APPIDS ==
    { <<"0">>,
      <<"2", "2", "8", "9", "8", "0">>,
      <<"1", "0", "7", "0", "5", "6", "0">>,
      <<"1", "3", "9", "1", "1", "1", "0">>,
      <<"1", "6", "2", "8", "3", "5", "0">> }

----------------------------------------------------------------------------
(* The override store: DataManager *)

EmptyStore == [custom_names |-> EmptyMap, custom_status |-> EmptyMap, api_cache |-> EmptyMap]

\* The file holds a JSON object ("object"), does not exist ("missing"), holds text
\* that is not JSON ("invalid_json"), holds JSON that is not an object
\* ("not_object"), or cannot be opened ("unreadable").
FileKinds == {"object", "missing", "invalid_json", "not_object", "unreadable"}
StoreFile(kind, data) == [kind |-> kind, data |-> data]

\* load_db(): the dict it returns ("dict"), a value that is no dict ("not_dict"),
\* or the exception it lets through ("raise": only FileNotFoundError and
\* JSONDecodeError are caught)
load_db(file) ==
    CASE file.kind = "object" -> [outcome |-> "dict", data |-> file.data]
      [] file.kind \in {"missing", "invalid_json"} -> [outcome |-> "dict", data |-> EmptyStore]
      [] file.kind = "not_object" -> [outcome |-> "not_dict", data |-> EmptyStore]
      [] OTHER -> [outcome |-> "raise", data |-> EmptyStore]

\* save_db(data): the file afterwards; every exception of open/dump is swallowed
save_db(file, data) ==
    IF file.kind = "unreadable" THEN file ELSE StoreFile("object", data)

----------------------------------------------------------------------------
(* Library roots, manifests and shortcuts *)

\* Paths are text, a sequence of characters; a pathlib.Path is the text in
\* normal form.
STEAM_BASE == <<"/", "s">>
Lib2 == <<"/", "l">>

\* The components of a path text: the runs of characters between separators
RECURSIVE Components(_, _)
Components(s, cur) ==
    IF s = <<>> THEN (IF cur = <<>> THEN <<>> ELSE <<cur>>)
    ELSE IF Head(s) = "/"
        THEN (IF cur = <<>> THEN <<>> ELSE <<cur>>) \o Components(Tail(s), <<>>)
    ELSE Components(Tail(s), Append(cur, Head(s)))

RECURSIVE JoinPath(_)
JoinPath(parts) ==
    IF parts = <<>> THEN <<>>
    ELSE IF Len(parts) = 1 THEN Head(parts)
    ELSE Head(parts) \o <<"/">> \o JoinPath(Tail(parts))

\* Path(path_str), line 213: repeated and trailing separators and "." components
\* go, exactly two leading separators stay two, case stays, the empty text is "."
Path(path_str) ==
    LET leading == IF path_str = <<>> \/ Head(path_str) # "/" THEN 0
                   ELSE IF Len(path_str) >= 2 /\ path_str[2] = "/"
                           /\ (Len(path_str) = 2 \/ path_str[3] # "/") THEN 2
                   ELSE 1
        anchor == [i \in 1..leading |-> "/"]
        parts == SelectSeq(Components(path_str, <<>>), LAMBDA c : c # <<".">>)
    IN  IF anchor = <<>> /\ parts = <<>> THEN <<".">> ELSE anchor \o JoinPath(parts)

\* path_str.replace("\\\\", "\\"), line 212: two backslashes become one
RECURSIVE Unescape(_)
Unescape(s) ==
    IF Len(s) < 2 THEN s
    ELSE IF s[1] = "\\" /\ s[2] = "\\" THEN <<"\\">> \o Unescape(Tail(Tail(s)))
    ELSE <<Head(s)>> \o Unescape(Tail(s))

\* get_steam_libraries(), lines 211-218: every registry path that exists and is
\* not yet in the list is appended; Path.exists raises PermissionError for a path
\* whose stat is denied, and the except of line 217, which is outside the loop,
\* ends the loop
RECURSIVE AppendLibraries(_, _, _, _)
AppendLibraries(libs, matches, exists, denied) ==
    IF matches = <<>> THEN libs
    ELSE LET lib_path == Path(Unescape(Head(matches)))
         IN  IF lib_path \in denied THEN libs
             ELSE AppendLibraries(
                      IF lib_path \in exists /\ lib_path \notin Range(libs)
                          THEN Append(libs, lib_path) ELSE libs,
                      Tail(matches), exists, denied)

\* get_steam_libraries(), lines 199-220: the primary root if it exists, then the
\* registry paths; without the primary root there is no registry file
get_steam_libraries(exists, denied, registry) ==
    AppendLibraries(IF STEAM_BASE \in exists THEN <<STEAM_BASE>> ELSE <<>>,
                    IF STEAM_BASE \in exists THEN registry ELSE <<>>, exists, denied)

\* One manifest file: its text has an "appid" field or not, a "name" field or not
Manifest(readable, hasAppid, appid, hasName, name) ==
    [readable |-> readable, hasAppid |-> hasAppid, appid |-> appid,
     hasName |-> hasName, name |-> name]

\* variant: an appid that is in the map already keeps its name
ReadManifestKeepFirst(games, acf) ==
    IF ~acf.readable THEN games
    ELSE IF acf.hasAppid /\ IsDigit(acf.appid) /\ acf.appid \notin DOMAIN games
        THEN MapSet(games, acf.appid, IF acf.hasName THEN acf.name ELSE Placeholder(acf.appid))
        ELSE games

\* run(), lines 739-747: one .acf file read into installed_games
ReadManifest(games, acf) ==
    IF ~acf.readable THEN games
    ELSE IF acf.hasAppid /\ IsDigit(acf.appid)
        THEN MapSet(games, acf.appid, IF acf.hasName THEN acf.name ELSE Placeholder(acf.appid))
        ELSE games

RECURSIVE ReadManifests(_, _)
ReadManifests(games, files) ==
    IF files = <<>> THEN games
    ELSE ReadManifests(ReadManifest(games, Head(files)), Tail(files))

\* run(), lines 735-747: every library in order, a later file overwrites
RECURSIVE ScanManifests(_, _, _)
ScanManifests(games, libs, manifests) ==
    IF libs = <<>> THEN games
    ELSE ScanManifests(ReadManifests(games, manifests[Head(libs)]), Tail(libs), manifests)

\* Integers of the shortcut file are kept as little-endian sequences of 16-bit
\* limbs (base 65536), since an id may exceed the integers TLC computes with
\* n & 0xffffffff: the two low limbs
Mask32(n) == <<IF Len(n) >= 1 THEN n[1] ELSE 0, IF Len(n) >= 2 THEN n[2] ELSE 0>>

RECURSIVE BitXor(_, _)
BitXor(a, b) ==
    IF a = 0 THEN b
    ELSE IF b = 0 THEN a
    ELSE (((a % 2) + (b % 2)) % 2) + 2 * BitXor(a \div 2, b \div 2)

\* x ^ y on 32-bit values
Xor32(x, y) == <<BitXor(x[1], y[1]), BitXor(x[2], y[2])>>

\* x >> 1 on a 32-bit value
Shr32(x) == <<(x[1] \div 2) + (x[2] % 2) * 32768, x[2] \div 2>>

\* 0xEDB88320, the reflected CRC-32 polynomial
CrcPoly == <<33568, 60856>>

\* 0xFFFFFFFF
Ones32 == <<65535, 65535>>

\* n bit steps of the CRC: shift right, and xor the polynomial in when the bit
\* shifted out was set
RECURSIVE CrcBits(_, _)
CrcBits(crc, n) ==
    IF crc[1] % 2 = 1
        THEN (IF n = 0 THEN crc ELSE CrcBits(Xor32(Shr32(crc), CrcPoly), n - 1))
        ELSE (IF n = 0 THEN crc ELSE CrcBits(Shr32(crc), n - 1))

RECURSIVE CrcBytes(_, _)
CrcBytes(crc, bytes) ==
    IF bytes = <<>> THEN crc
    ELSE CrcBytes(CrcBits(Xor32(crc, <<Head(bytes), 0>>), 8), Tail(bytes))

\* zlib.crc32(s.encode("utf-8"))
crc32(s) == Xor32(CrcBytes(Ones32, encode(s)), Ones32)

\* x | 0x80000000
SetBit31(x) == <<x[1], IF x[2] < 32768 THEN x[2] + 32768 ELSE x[2]>>

\* str(n) for a 32-bit n: decimal digits by long division by ten
RECURSIVE U32ToStr(_)
U32ToStr(n) ==
    LET rest == (n[2] % 10) * 65536 + n[1]
        quot == <<rest \div 10, n[2] \div 10>>
        digit == DigitChars[(rest % 10) + 1]
    IN  IF quot = <<0, 0>> THEN <<digit>> ELSE Append(U32ToStr(quot), digit)

----------------------------------------------------------------------------
(* NonSteamManager.parse_binary_vdf *)

\* A Python dict that keeps insertion order: a sequence of (key, value) entries.
\* A value is a str, an int (two 16-bit limbs, or more for an int above 2^32) or
\* a dict.
EmptyDict == <<>>
StrVal(chars) == [t |-> "str", v |-> chars]
IntVal(limbs) == [t |-> "int", v |-> limbs]
MapVal(dict) == [t |-> "map", v |-> dict]

DictHas(dict, key) == \E i \in 1..Len(dict) : dict[i].key = key

\* dict.get(key, default)
DictGet(dict, key, default) ==
    IF DictHas(dict, key)
        THEN dict[CHOOSE i \in 1..Len(dict) : dict[i].key = key].val
        ELSE default

\* dict[key] = val: a key already there keeps its place
DictSet(dict, key, val) ==
    IF DictHas(dict, key)
        THEN [i \in 1..Len(dict) |-> IF dict[i].key = key THEN [key |-> key, val |-> val]
                                                           ELSE dict[i]]
        ELSE Append(dict, [key |-> key, val |-> val])

\* d.find(b"\x00", p): the index (from 0) of the first NUL at or after p, or -1
FindNul(d, p) ==
    LET hits == {i \in p..(Len(d) - 1) : d[i + 1] = 0}
    IN  IF hits = {} THEN -1 ELSE CHOOSE i \in hits : \A j \in hits : i <= j

\* read_string(d, p), lines 268-272: ok is false when it raises ValueError
read_string(d, p) ==
    LET end == FindNul(d, p)
    IN  IF end = -1 THEN [ok |-> FALSE, s |-> <<>>, p |-> p]
        ELSE [ok |-> TRUE, s |-> decode(SubSeq(d, p + 1, end)), p |-> end + 1]

\* variant: the four bytes read with the high byte first
unpack_u32_be(d, p) == <<d[p + 4] + 256 * d[p + 3], d[p + 2] + 256 * d[p + 1]>>

\* struct.unpack("<I", d[p:p+4])[0], line 298
unpack_u32(d, p) == <<d[p + 1] + 256 * d[p + 2], d[p + 3] + 256 * d[p + 4]>>

\* parse_map(d, p), lines 274-304. ParseEntries is its while loop with res built
\* so far; err is true when read_string raised for a value (lines 291, 294) and
\* the exception leaves parse_map.
RECURSIVE ParseEntries(_, _, _)
ParseEntries(d, p, res) ==
    IF p >= Len(d) THEN [res |-> res, p |-> p, err |-> FALSE]
    ELSE LET type_byte == d[p + 1]
             p1 == p + 1
             k == read_string(d, p1)
         IN  IF type_byte = 8 THEN [res |-> res, p |-> p1, err |-> FALSE]
             ELSE IF p1 >= Len(d) THEN [res |-> res, p |-> p1, err |-> FALSE]
             ELSE IF ~k.ok THEN [res |-> res, p |-> p1, err |-> FALSE]
             ELSE IF type_byte = 0
                 THEN LET sub == ParseEntries(d, k.p, EmptyDict)
                      IN  IF sub.err THEN [res |-> res, p |-> sub.p, err |-> TRUE]
                          ELSE ParseEntries(d, sub.p, DictSet(res, k.s, MapVal(sub.res)))
             ELSE IF type_byte = 1
                 THEN LET val == read_string(d, k.p)
                      IN  IF ~val.ok THEN [res |-> res, p |-> k.p, err |-> TRUE]
                          ELSE ParseEntries(d, val.p, DictSet(res, k.s, StrVal(val.s)))
             ELSE IF type_byte = 2
                 THEN IF k.p + 4 > Len(d) THEN [res |-> res, p |-> k.p, err |-> FALSE]
                      ELSE ParseEntries(d, k.p + 4,
                                        DictSet(res, k.s, IntVal(unpack_u32(d, k.p))))
             ELSE [res |-> res, p |-> k.p, err |-> FALSE]

parse_map(d, p) == ParseEntries(d, p, EmptyDict)

\* lines 316-318 and 324-326: the values of root_map that are dicts, in order
CollectMaps(root_map) ==
    LET maps == SelectSeq(root_map, LAMBDA e : e.val.t = "map")
    IN  [i \in 1..Len(maps) |-> maps[i].val.v]

ShortcutsKey == <<"s", "h", "o", "r", "t", "c", "u", "t", "s">>

\* variant: an exception of the second attempt reaches the caller
FallbackUncaught(data) ==
    LET r == parse_map(data, 0)
    IN  IF r.err THEN [raised |-> TRUE, items |-> <<>>]
        ELSE [raised |-> FALSE, items |-> CollectMaps(r.res)]

\* lines 322-330: the second attempt, the buffer parsed as one root map
Fallback(data) ==
    LET r == parse_map(data, 0)
    IN  IF r.err THEN [raised |-> FALSE, items |-> <<>>]
        ELSE [raised |-> FALSE, items |-> CollectMaps(r.res)]

\* parse_binary_vdf(data), lines 306-330: the list returned, raised when an
\* exception leaves the function
parse_binary_vdf(data) ==
    IF Len(data) = 0 THEN [raised |-> FALSE, items |-> <<>>]
    ELSE LET key == read_string(data, 1)
             wrapped == parse_map(data, key.p)
         IN  IF data[1] = 0 /\ key.ok /\ key.s = ShortcutsKey
                 THEN IF wrapped.err THEN Fallback(data)
                      ELSE [raised |-> FALSE, items |-> CollectMaps(wrapped.res)]
                 ELSE Fallback(data)

----------------------------------------------------------------------------
(* NonSteamManager.get_non_steam_ids *)

KeyAppName == <<"A", "p", "p", "N", "a", "m", "e">>
KeyExe == <<"E", "x", "e">>
KeyAppid == <<"a", "p", "p", "i", "d">>

\* bool(x) of a str, an int or a dict
Truthy(x) == IF x.t = "int" THEN \E i \in 1..Len(x.v) : x.v[i] # 0 ELSE x.v # <<>>

\* lines 244-259 for one item: the mapping afterwards, raised when the item makes
\* the loop raise (`&` on an appid that is no int, `+` of values that are not
\* two str); what was registered before the exception stays
MapItem(mapping, item) ==
    LET app_name == DictGet(item, KeyAppName, StrVal(<<>>))
        exe_path == DictGet(item, KeyExe, StrVal(<<>>))
        raw_id == DictGet(item, KeyAppid, StrVal(<<>>))
        explicit == IF DictHas(item, KeyAppid)
                        THEN MapSet(mapping, U32ToStr(Mask32(raw_id.v)), app_name.v)
                        ELSE mapping
        gen_id == SetBit31(Mask32(crc32(exe_path.v \o app_name.v)))
    IN  IF DictHas(item, KeyAppid) /\ raw_id.t # "int"
            THEN [mapping |-> mapping, raised |-> TRUE]
        ELSE IF Truthy(app_name) /\ Truthy(exe_path)
            THEN IF app_name.t = "str" /\ exe_path.t = "str"
                     THEN [mapping |-> MapSet(explicit, U32ToStr(gen_id), app_name.v),
                           raised |-> FALSE]
                     ELSE [mapping |-> explicit, raised |-> TRUE]
        ELSE [mapping |-> explicit, raised |-> FALSE]

\* lines 236-262: the loop over the items; the try encloses the loop, an
\* exception ends it
RECURSIVE MapItems(_, _)
MapItems(mapping, items) ==
    IF items = <<>> THEN mapping
    ELSE LET r == MapItem(mapping, Head(items))
         IN  IF r.raised THEN r.mapping ELSE MapItems(r.mapping, Tail(items))

\* get_non_steam_ids(STEAM_BASE) for the shortcuts.vdf holding `data`: nothing
\* without a userdata directory
get_non_steam_ids(exists, data) ==
    IF STEAM_BASE \in exists THEN MapItems(EmptyMap, parse_binary_vdf(data).items)
    ELSE EmptyMap

----------------------------------------------------------------------------
(* ScanWorker.run: one prefix directory, deduplication, sorting *)

\* An entry of a compatdata directory
DirEntry(name, is_dir, readable, writable) ==
    [name |-> name, is_dir |-> is_dir, readable |-> readable, writable |-> writable]

\* The record run() appends for a directory (lines 796-802)
Prefix(appid, display_name, path, is_installed) ==
    [appid |-> appid, name |-> display_name, path |-> path,
     status |-> IF is_installed THEN "Installed" ELSE "Uninstalled",
     is_installed |-> is_installed]

\* run(), line 761: the directories with a numeric name, in iterdir order
ListDirs(entries) == SelectSeq(entries, LAMBDA d : d.is_dir /\ IsDigit(d.name))

\* run(), lines 752-761: the dirs of one library; none when compatdata is absent
\* or not readable and traversable
LibraryDirs(compat, entries) == IF compat = "ok" THEN ListDirs(entries) ELSE <<>>

\* variant: the set checked lacks "0"
IgnoredButZero(appid) == appid \in IGNORE_APPIDS \ {<<"0">>}

\* run(), line 765
Ignored(appid) == appid \in IGNORE_APPIDS

\* run(), lines 765-768: the directory is skipped
Skipped(d) == Ignored(d.name) \/ ~d.readable

\* variant: the manifest map is asked before custom_status
ResolveStatusManifestFirst(appid, custom_status, installed, non_steam) ==
    IF appid \in DOMAIN installed THEN TRUE
    ELSE IF appid \in DOMAIN custom_status THEN custom_status[appid]
    ELSE appid \in DOMAIN non_steam

\* run(), lines 771-778
ResolveStatus(appid, custom_status, installed, non_steam) ==
    IF appid \in DOMAIN custom_status THEN custom_status[appid]
    ELSE IF appid \in DOMAIN installed THEN TRUE
    ELSE IF appid \in DOMAIN non_steam THEN TRUE
    ELSE FALSE

\* variant: api_cache is asked before the manifest map and the shortcut table
NameSourceCacheFirst(appid, custom_names, installed, non_steam, cache) ==
    IF appid \in DOMAIN custom_names THEN "custom"
    ELSE IF appid \in DOMAIN cache THEN "cache"
    ELSE IF appid \in DOMAIN installed THEN "manifest"
    ELSE IF appid \in DOMAIN non_steam THEN "shortcut"
    ELSE "remote"

\* run(), lines 782-790: the source the name is taken from
NameSource(appid, custom_names, installed, non_steam, cache) ==
    IF appid \in DOMAIN custom_names THEN "custom"
    ELSE IF appid \in DOMAIN installed THEN "manifest"
    ELSE IF appid \in DOMAIN non_steam THEN "shortcut"
    ELSE IF appid \in DOMAIN cache THEN "cache"
    ELSE "remote"

\* run(), lines 782-792: the name, `fetched` being what fetch_steam_name returned
ResolveName(appid, custom_names, installed, non_steam, cache, fetched) ==
    LET src == NameSource(appid, custom_names, installed, non_steam, cache)
    IN  CASE src = "custom" -> custom_names[appid]
          [] src = "manifest" -> installed[appid]
          [] src = "shortcut" -> non_steam[appid]
          [] src = "cache" -> cache[appid]
          [] OTHER -> fetched

\* variant: whatever was fetched is cached
CacheableAlways(fetched) == TRUE

\* run(), line 793: the fetched name goes into api_cache
Cacheable(fetched) == ~Contains(AppIDWord, fetched)

\* What fetch_steam_name returns: a str, or a value that is no str (the JSON name
\* field was null or a number)
Fetched(isstr, val) == [isstr |-> isstr, val |-> val]

\* Names the lookup service answers with
RemoteNames == { <<"G", "a", "m", "m", "a">>, <<"M", "y", "A", "p", "p", "I", "D">> }

\* fetch_steam_name(appid): the placeholder on any failure, else data["name"]
FetchResults(appid) ==
    {Fetched(TRUE, Placeholder(appid))}
        \cup {Fetched(TRUE, n) : n \in RemoteNames}
        \cup {Fetched(FALSE, <<>>)}

RECURSIVE Deduplicate(_, _)

\* variant: a later record of the same appid always replaces the kept one
RECURSIVE DeduplicateKeepLast(_, _)
DeduplicateKeepLast(unique, ps) ==
    IF ps = <<>> THEN unique
    ELSE LET p == Head(ps)
             seen == {i \in 1..Len(unique) : unique[i].appid = p.appid}
         IN  IF seen = {} THEN DeduplicateKeepLast(Append(unique, p), Tail(ps))
             ELSE DeduplicateKeepLast([unique EXCEPT ![CHOOSE j \in seen : TRUE] = p],
                                      Tail(ps))

\* keeps the first record of an appid whatever comes later
RECURSIVE DeduplicateKeepFirst(_, _)
DeduplicateKeepFirst(unique, ps) ==
    IF ps = <<>> THEN unique
    ELSE IF \E i \in 1..Len(unique) : unique[i].appid = Head(ps).appid
        THEN DeduplicateKeepFirst(unique, Tail(ps))
        ELSE DeduplicateKeepFirst(Append(unique, Head(ps)), Tail(ps))

\* run(), lines 809-816: the kept records, in order of first appearance of the appid
Deduplicate(unique, ps) ==
    IF ps = <<>> THEN unique
    ELSE LET p == Head(ps)
             seen == {i \in 1..Len(unique) : unique[i].appid = p.appid}
         IN  IF seen = {} THEN Deduplicate(Append(unique, p), Tail(ps))
             ELSE LET i == CHOOSE j \in seen : TRUE
                  IN  IF p.is_installed /\ ~unique[i].is_installed
                          THEN Deduplicate([unique EXCEPT ![i] = p], Tail(ps))
                          ELSE Deduplicate(unique, Tail(ps))

\* variant: names compared without lowering them
KeyLessExactCase(x, y) ==
    IF x.is_installed # y.is_installed THEN x.is_installed
    ELSE StrLess(x.name, y.name)

\* run(), line 819: key(x) < key(y) for key = (not is_installed, name.lower())
KeyLess(x, y) ==
    IF x.is_installed # y.is_installed THEN x.is_installed
    ELSE StrLess(LowerStr(x.name), LowerStr(y.name))

\* list.sort is stable: x goes after every element whose key is not greater
RECURSIVE InsertSorted(_, _)
InsertSorted(sorted, x) ==
    IF sorted = <<>> THEN <<x>>
    ELSE IF KeyLess(x, Head(sorted)) THEN <<x>> \o sorted
    ELSE <<Head(sorted)>> \o InsertSorted(Tail(sorted), x)

RECURSIVE SortPrefixes(_, _)
SortPrefixes(sorted, ps) ==
    IF ps = <<>> THEN sorted
    ELSE SortPrefixes(InsertSorted(sorted, Head(ps)), Tail(ps))

\* run(), lines 809-819
FinalList(ps) == SortPrefixes(<<>>, Deduplicate(<<>>, ps))

----------------------------------------------------------------------------
(* The ScanWorker thread *)

custom_names == db.custom_names
custom_status == db.custom_status

\* A worker that has not run yet (refresh_data, lines 992-995)
NewWorker ==
    /\ pc = "start"
    /\ db = EmptyStore
    /\ api_cache = EmptyMap
    /\ installed_games = EmptyMap
    /\ non_steam_games = EmptyMap
    /\ libraries = <<>>
    /\ libIdx = 0
    /\ dirs = <<>>
    /\ prefixes = <<>>
    /\ fetchLog = <<>>
    /\ saves = 0
    /\ emitted = 0

\* run(), lines 718-725. db.get raises when load_db returned no dict, and load_db
\* lets PermissionError through: the thread ends without a finished event.
LoadDb ==
    /\ pc = "start"
    /\ LET r == load_db(dbFile)
       IN  IF r.outcome = "dict"
               THEN /\ db' = r.data
                    /\ api_cache' = r.data.api_cache
                    /\ pc' = "loaded"
               ELSE /\ pc' = "crashed"
                    /\ UNCHANGED <<db, api_cache>>
    /\ UNCHANGED <<installed_games, non_steam_games, libraries, libIdx, dirs, prefixes,
                   fetchLog, saves, emitted>>
    /\ UNCHANGED <<fsVars, dbFile, signals, uiVars, edits, pureVars>>

\* run(), lines 727-747: libraries, shortcut table and manifest map
BuildIndex ==
    /\ pc = "loaded"
    /\ libraries' = get_steam_libraries(fsExists, fsDenied, fsRegistry)
    /\ non_steam_games' = get_non_steam_ids(fsExists, fsShortcuts)
    /\ installed_games' = ScanManifests(EmptyMap, libraries', fsManifests)
    /\ libIdx' = 0
    /\ dirs' = <<>>
    /\ pc' = "walk"
    /\ UNCHANGED <<db, api_cache, prefixes, fetchLog, saves, emitted>>
    /\ UNCHANGED <<fsVars, dbFile, signals, uiVars, edits, pureVars>>

\* run(), lines 749-761: the next library is entered
EnterLibrary ==
    /\ pc = "walk"
    /\ dirs = <<>>
    /\ libIdx < Len(libraries)
    /\ libIdx' = libIdx + 1
    /\ dirs' = LET lib_path == libraries[libIdx + 1]
               IN  [i \in 1..Len(LibraryDirs(fsCompat[lib_path], fsDirs[lib_path])) |->
                       [root |-> lib_path,
                        entry |-> LibraryDirs(fsCompat[lib_path], fsDirs[lib_path])[i]]]
    /\ UNCHANGED <<pc, db, api_cache, installed_games, non_steam_games, libraries,
                   prefixes, fetchLog, saves, emitted>>
    /\ UNCHANGED <<fsVars, dbFile, signals, uiVars, edits, pureVars>>

\* run(), lines 763-768: an ignored or unreadable directory
SkipDir ==
    /\ pc = "walk"
    /\ dirs # <<>>
    /\ Skipped(Head(dirs).entry)
    /\ dirs' = Tail(dirs)
    /\ UNCHANGED <<pc, db, api_cache, installed_games, non_steam_games, libraries, libIdx,
                   prefixes, fetchLog, saves, emitted>>
    /\ UNCHANGED <<fsVars, dbFile, signals, uiVars, edits, pureVars>>

\* run(), lines 770-802: a directory named by the store, a manifest, a shortcut or
\* the cache
VisitNamed ==
    /\ pc = "walk"
    /\ dirs # <<>>
    /\ ~Skipped(Head(dirs).entry)
    /\ LET d == Head(dirs)
           appid == d.entry.name
       IN  /\ NameSource(appid, custom_names, installed_games, non_steam_games, api_cache)
                  # "remote"
           /\ prefixes' = Append(prefixes,
                  Prefix(appid,
                         ResolveName(appid, custom_names, installed_games, non_steam_games,
                                     api_cache, <<>>),
                         <<d.root, appid>>,
                         ResolveStatus(appid, custom_status, installed_games,
                                       non_steam_games)))
    /\ dirs' = Tail(dirs)
    /\ UNCHANGED <<pc, db, api_cache, installed_games, non_steam_games, libraries, libIdx,
                   fetchLog, saves, emitted>>
    /\ UNCHANGED <<fsVars, dbFile, signals, uiVars, edits, pureVars>>

\* run(), lines 790-802, and the handler of line 803: a directory no source names.
\* `"AppID" not in fetched` raises TypeError when fetched is no str; the except of
\* line 803 encloses the whole loop, so the rest of the library is dropped.
VisitFetched ==
    /\ pc = "walk"
    /\ dirs # <<>>
    /\ ~Skipped(Head(dirs).entry)
    /\ LET d == Head(dirs)
           appid == d.entry.name
       IN  /\ NameSource(appid, custom_names, installed_games, non_steam_games, api_cache)
                  = "remote"
           /\ \E fetched \in FetchResults(appid) :
                /\ fetchLog' = Append(fetchLog, [appid |-> appid, fetched |-> fetched])
                /\ IF fetched.isstr
                       THEN /\ api_cache' = IF Cacheable(fetched.val)
                                                THEN MapSet(api_cache, appid, fetched.val)
                                                ELSE api_cache
                            /\ prefixes' = Append(prefixes,
                                   Prefix(appid,
                                          ResolveName(appid, custom_names, installed_games,
                                                      non_steam_games, api_cache,
                                                      fetched.val),
                                          <<d.root, appid>>,
                                          ResolveStatus(appid, custom_status,
                                                        installed_games, non_steam_games)))
                            /\ dirs' = Tail(dirs)
                       ELSE /\ dirs' = <<>>
                            /\ UNCHANGED <<api_cache, prefixes>>
    /\ UNCHANGED <<pc, db, installed_games, non_steam_games, libraries, libIdx, saves,
                   emitted>>
    /\ UNCHANGED <<fsVars, dbFile, signals, uiVars, edits, pureVars>>

\* run(), lines 806-807
SaveDb ==
    /\ pc = "walk"
    /\ dirs = <<>>
    /\ libIdx = Len(libraries)
    /\ db' = [db EXCEPT !.api_cache = api_cache]
    /\ dbFile' = save_db(dbFile, db')
    /\ saves' = saves + 1
    /\ pc' = "saved"
    /\ UNCHANGED <<api_cache, installed_games, non_steam_games, libraries, libIdx, dirs,
                   prefixes, fetchLog, emitted>>
    /\ UNCHANGED <<fsVars, signals, uiVars, edits, pureVars>>

\* run(), lines 809-820
EmitFinished ==
    /\ pc = "saved"
    /\ signals' = Append(signals, FinalList(prefixes))
    /\ emitted' = emitted + 1
    /\ pc' = "done"
    /\ UNCHANGED <<db, api_cache, installed_games, non_steam_games, libraries, libIdx,
                   dirs, prefixes, fetchLog, saves>>
    /\ UNCHANGED <<fsVars, dbFile, uiVars, edits, pureVars>>

----------------------------------------------------------------------------
(* MainWindow *)

\* on_scan_finished(prefixes), lines 997-1002
OnScanFinished ==
    /\ signals # <<>>
    /\ btn_refresh' = TRUE
    /\ all_prefixes' = Head(signals)
    /\ signals' = Tail(signals)
    /\ UNCHANGED <<scans, clicks, userNames, userStatus, lastFailed>>
    /\ UNCHANGED <<fsVars, dbFile, runVars, edits, pureVars>>

\* The appids a run looked up without ever getting a name
FailedLookups(log) ==
    {log[i].appid : i \in {j \in 1..Len(log) :
        \A k \in 1..Len(log) :
            log[k].appid = log[j].appid
                => log[k].fetched = Fetched(TRUE, Placeholder(log[k].appid))}}

\* variant: the button is not disabled when the worker is started
RefreshDataButtonLeftEnabled ==
    /\ btn_refresh
    /\ scans < MaxScans
    /\ btn_refresh' = btn_refresh
    /\ scans' = scans + 1
    /\ lastFailed' = FailedLookups(fetchLog)
    /\ pc' = "start"
    /\ db' = EmptyStore
    /\ api_cache' = EmptyMap
    /\ installed_games' = EmptyMap
    /\ non_steam_games' = EmptyMap
    /\ libraries' = <<>>
    /\ libIdx' = 0
    /\ dirs' = <<>>
    /\ prefixes' = <<>>
    /\ fetchLog' = <<>>
    /\ saves' = 0
    /\ emitted' = 0
    /\ UNCHANGED <<all_prefixes, clicks, userNames, userStatus>>
    /\ UNCHANGED <<fsVars, dbFile, signals, edits, pureVars>>

\* refresh_data(), lines 987-995, from a click on the enabled REFRESH button
RefreshData ==
    /\ btn_refresh
    /\ scans < MaxScans
    /\ btn_refresh' = FALSE
    /\ scans' = scans + 1
    /\ lastFailed' = FailedLookups(fetchLog)
    /\ pc' = "start"
    /\ db' = EmptyStore
    /\ api_cache' = EmptyMap
    /\ installed_games' = EmptyMap
    /\ non_steam_games' = EmptyMap
    /\ libraries' = <<>>
    /\ libIdx' = 0
    /\ dirs' = <<>>
    /\ prefixes' = <<>>
    /\ fetchLog' = <<>>
    /\ saves' = 0
    /\ emitted' = 0
    /\ UNCHANGED <<all_prefixes, clicks, userNames, userStatus>>
    /\ UNCHANGED <<fsVars, dbFile, signals, edits, pureVars>>

\* The compatdata entry a record's path names
EntryAt(path) ==
    LET hits == {i \in 1..Len(fsDirs[path[1]]) : fsDirs[path[1]][i].name = path[2]}
    IN  fsDirs[path[1]][CHOOSE i \in hits : TRUE]

\* Names typed into the rename dialog (stripped, not empty)
RenameNames == { <<"Z", "e", "t", "a">> }

\* action_rename(data), lines 1155-1176, the dialog accepted with new_name
ActionRename ==
    \E i \in 1..Len(all_prefixes), new_name \in RenameNames :
        LET data == all_prefixes[i]
            r == load_db(dbFile)
            written == save_db(dbFile,
                [r.data EXCEPT !.custom_names = MapSet(@, data.appid, new_name)])
        IN  /\ clicks < MaxClicks
            /\ clicks' = clicks + 1
            /\ EntryAt(data.path).writable
            /\ r.outcome = "dict"
            /\ dbFile' = written
            /\ all_prefixes' = [all_prefixes EXCEPT ![i].name = new_name]
            /\ userNames' = IF written.kind = "object"
                                THEN MapSet(userNames, data.appid, new_name)
                                ELSE userNames
            /\ UNCHANGED <<btn_refresh, scans, userStatus, lastFailed>>
            /\ UNCHANGED <<fsVars, runVars, signals, edits, pureVars>>

\* action_toggle_status(data), lines 1178-1190
ActionToggleStatus ==
    \E i \in 1..Len(all_prefixes) :
        LET data == all_prefixes[i]
            new_status == ~data.is_installed
            r == load_db(dbFile)
            written == save_db(dbFile,
                [r.data EXCEPT !.custom_status = MapSet(@, data.appid, new_status)])
        IN  /\ clicks < MaxClicks
            /\ clicks' = clicks + 1
            /\ r.outcome = "dict"
            /\ dbFile' = written
            /\ all_prefixes' = [all_prefixes EXCEPT
                   ![i].is_installed = new_status,
                   ![i].status = IF new_status THEN "Installed" ELSE "Uninstalled"]
            /\ userStatus' = IF written.kind = "object"
                                 THEN MapSet(userStatus, data.appid, new_status)
                                 ELSE userStatus
            /\ UNCHANGED <<btn_refresh, scans, userNames, lastFailed>>
            /\ UNCHANGED <<fsVars, runVars, signals, edits, pureVars>>

\* The store file is replaced or its permissions changed from outside the program
\* (OPEN CONFIG opens its directory in the file manager)
ExternalEdit ==
    /\ edits < MaxEdits
    /\ edits' = edits + 1
    /\ \E kind \in {"missing", "not_object", "unreadable"} :
           dbFile' = StoreFile(kind, EmptyStore)
    /\ UNCHANGED <<fsVars, runVars, signals, uiVars, pureVars>>

----------------------------------------------------------------------------
(* Initial states: the state MainWindow.__init__ leaves, its first worker started *)

Roots == {STEAM_BASE, Lib2}

A0 == <<"0">>
A7 == <<"7">>
A8 == <<"8">>
NameZeta == <<"Z", "e", "t", "a">>
NameApple == <<"A", "p", "p", "l", "e">>
NameBeta == <<"b", "e", "t", "a">>
NameAlpha == <<"a", "l", "p", "h", "a">>

\* Sequences over S of length at most n
SeqsUpTo(S, n) == UNION {[1..k -> S] : k \in 0..n}

\* Names within one directory are distinct
DistinctNames(entries) ==
    \A i, j \in 1..Len(entries) : i # j => entries[i].name # entries[j].name

DirEntryChoices ==
    {DirEntry(n, TRUE, TRUE, TRUE) : n \in {A0, A7, A8, <<"x">>}}
        \cup {DirEntry(A8, TRUE, FALSE, TRUE), DirEntry(A7, FALSE, TRUE, TRUE)}

DirListChoices == {l \in SeqsUpTo(DirEntryChoices, MaxDirs) : DistinctNames(l)}

CompatChoices ==
    { [r \in Roots |-> "ok"],
      [r \in Roots |-> IF r = Lib2 THEN "noaccess" ELSE "ok"],
      [r \in Roots |-> IF r = STEAM_BASE THEN "absent" ELSE "ok"] }

ManifestChoices ==
    { [r \in Roots |-> <<>>],
      [r \in Roots |-> IF r = STEAM_BASE
                           THEN <<Manifest(TRUE, TRUE, A7, TRUE, NameBeta)>>
                           ELSE <<Manifest(TRUE, TRUE, A7, TRUE, NameApple),
                                  Manifest(TRUE, TRUE, A0, TRUE, NameZeta)>>],
      [r \in Roots |-> IF r = STEAM_BASE
                           THEN <<Manifest(TRUE, TRUE, A8, FALSE, <<>>),
                                  Manifest(FALSE, TRUE, A7, TRUE, NameBeta),
                                  Manifest(TRUE, FALSE, <<>>, TRUE, NameBeta)>>
                           ELSE <<>>] }

\* The entries of shortcut maps as a file holds them: a 0x01 entry with its text,
\* a 0x02 entry with its number
StrEntry(key, val) == [t |-> "str", key |-> key, val |-> val]
IntEntry(key, val) == [t |-> "int", key |-> key, val |-> val]

\* Their bytes
WriteStr(chars) == encode(chars) \o <<0>>
WriteInt(n) == <<n[1] % 256, n[1] \div 256, n[2] % 256, n[2] \div 256>>
WriteEntry(e) ==
    IF e.t = "str" THEN <<1>> \o WriteStr(e.key) \o WriteStr(e.val)
    ELSE <<2>> \o WriteStr(e.key) \o WriteInt(e.val)

RECURSIVE WriteEntries(_)
WriteEntries(entries) ==
    IF entries = <<>> THEN <<>>
    ELSE WriteEntry(Head(entries)) \o WriteEntries(Tail(entries))

\* The maps of a root map, keyed "0", "1", ... from ordinal n on, each closed by 0x08
RECURSIVE WriteMaps(_, _)
WriteMaps(maps, n) ==
    IF maps = <<>> THEN <<>>
    ELSE <<0>> \o WriteStr(<<DigitChars[n + 1]>>) \o WriteEntries(Head(maps)) \o <<8>>
             \o WriteMaps(Tail(maps), n + 1)

\* 0x00 "shortcuts" NUL
WrappedHeader == <<0>> \o WriteStr(ShortcutsKey)

\* A file in the canonical wrapped shape
WriteFile(maps) == WrappedHeader \o WriteMaps(maps, 0) \o <<8, 8>>

ShortcutChoices ==
    { <<>>,
      WriteFile(<< <<StrEntry(KeyAppName, NameAlpha), StrEntry(KeyExe, <<"/", "x">>),
                    IntEntry(KeyAppid, <<8, 0>>)>>,
                  <<StrEntry(KeyAppName, NameZeta), IntEntry(KeyAppid, <<0, 0>>)>> >>) }

\* The decoding of shortcuts is not looked at on its own
VdfOff ==
    /\ vdfPc = "off"
    /\ vdfShape = [kind |-> "none"]
    /\ vdfOut = [raised |-> FALSE, items |-> <<>>]

StoreChoices ==
    {StoreFile("invalid_json", EmptyStore)} \cup
    { StoreFile("object", [custom_names |-> cn, custom_status |-> cs, api_cache |-> ac]) :
        cn \in {EmptyMap, (A7 :> NameZeta) @@ (A0 :> NameApple)},
        cs \in {EmptyMap, (A7 :> FALSE) @@ (A0 :> TRUE), (A8 :> TRUE)},
        ac \in {EmptyMap, (A7 :> NameAlpha) @@ (A0 :> NameBeta)} }

InitWindow ==
    /\ NewWorker
    /\ signals = <<>>
    /\ btn_refresh = FALSE
    /\ all_prefixes = <<>>
    /\ scans = 1
    /\ clicks = 0
    /\ edits = 0
    /\ userNames = EmptyMap
    /\ userStatus = EmptyMap
    /\ lastFailed = {}

Init ==
    /\ fsExists = Roots
    /\ fsDenied = {}
    /\ fsRegistry = <<STEAM_BASE, Lib2>>
    /\ fsCompat \in CompatChoices
    /\ fsDirs \in [Roots -> DirListChoices]
    /\ Len(fsDirs[STEAM_BASE]) + Len(fsDirs[Lib2]) <= MaxDirs
    /\ \A r \in Roots : fsCompat[r] = "absent" => fsDirs[r] = <<>>
    /\ fsManifests \in ManifestChoices
    /\ fsShortcuts \in ShortcutChoices
    /\ dbFile \in StoreChoices
    /\ InitWindow
    /\ dedupIn = <<>>
    /\ dedupOut = <<>>
    /\ VdfOff

\* The first scan of a session, up to the handling of its finished event
Scan ==
    \/ LoadDb
    \/ BuildIndex
    \/ EnterLibrary
    \/ SkipDir
    \/ VisitNamed
    \/ VisitFetched
    \/ SaveDb
    \/ EmitFinished

Next ==
    \/ Scan
    \/ OnScanFinished

Spec == Init /\ [][Next]_vars

----------------------------------------------------------------------------
(* A session: further scans, the user's actions on the cards, changes made to the
   store file from outside *)

\* Two installations: one prefix found under both roots and named by no source;
\* a manifest-named prefix that cannot be written next to an ignored one
SessionChoices ==
    { [dirs |-> [r \in Roots |-> <<DirEntry(A7, TRUE, TRUE, TRUE)>>],
       manifests |-> [r \in Roots |-> <<>>],
       file |-> StoreFile("object", EmptyStore)],
      [dirs |-> [r \in Roots |-> IF r = STEAM_BASE
                                     THEN <<DirEntry(A0, TRUE, TRUE, TRUE),
                                            DirEntry(A8, TRUE, TRUE, FALSE)>>
                                     ELSE <<DirEntry(A7, TRUE, TRUE, TRUE)>>],
       manifests |-> [r \in Roots |-> IF r = STEAM_BASE
                                          THEN <<Manifest(TRUE, TRUE, A8, TRUE, NameBeta)>>
                                          ELSE <<>>],
       file |-> StoreFile("invalid_json", EmptyStore)] }

InitSession ==
    /\ fsExists = Roots
    /\ fsDenied = {}
    /\ fsRegistry = <<STEAM_BASE, Lib2>>
    /\ fsCompat = [r \in Roots |-> "ok"]
    /\ \E c \in SessionChoices :
         /\ fsDirs = c.dirs
         /\ fsManifests = c.manifests
         /\ dbFile = c.file
    /\ fsShortcuts = <<>>
    /\ InitWindow
    /\ dedupIn = <<>>
    /\ dedupOut = <<>>
    /\ VdfOff

Session ==
    \/ Scan
    \/ OnScanFinished
    \/ RefreshData
    \/ ActionRename
    \/ ActionToggleStatus
    \/ ExternalEdit

SpecSession == InitSession /\ [][Session]_vars

----------------------------------------------------------------------------
(* The deduplication step of run() on arbitrary record lists *)

DedupRecords ==
    { Prefix(a, n, <<r, a>>, inst) :
        a \in {A7, A8}, n \in {NameBeta, NameApple}, r \in Roots, inst \in BOOLEAN }

InitDedup ==
    /\ fsExists = Roots
    /\ fsDenied = {}
    /\ fsRegistry = <<STEAM_BASE, Lib2>>
    /\ fsCompat = [r \in Roots |-> "ok"]
    /\ fsDirs = [r \in Roots |-> <<>>]
    /\ fsManifests = [r \in Roots |-> <<>>]
    /\ fsShortcuts = <<>>
    /\ dbFile = StoreFile("object", EmptyStore)
    /\ InitWindow
    /\ dedupIn \in SeqsUpTo(DedupRecords, MaxDedupLen)
    /\ dedupOut = <<>>
    /\ VdfOff

\* unique_prefixes of lines 809-816 for prefixes = dedupIn
ApplyDedup ==
    /\ dedupIn # <<>>
    /\ dedupOut = <<>>
    /\ dedupOut' = Deduplicate(<<>>, dedupIn)
    /\ UNCHANGED <<fsVars, dbFile, runVars, signals, uiVars, edits, dedupIn, vdfVars>>

SpecDedup == InitDedup /\ [][ApplyDedup]_vars

----------------------------------------------------------------------------
(* Shortcut decoding on its own: parse_binary_vdf on the bytes of a file, then the
   loop of get_non_steam_ids on what it returned *)

\* Bytes of files of arbitrary content: the type bytes, an unknown type byte, a
\* letter, and a byte that is not UTF-8
GarbageBytes == {0, 1, 2, 5, 8, 97, 255}

\* The entries shortcut maps are made of; an id above 2^31 whose bytes hold 0x00
\* and 0x08
EntryChoices ==
    { StrEntry(KeyAppName, <<"G">>), StrEntry(KeyExe, <<"/", "x">>),
      IntEntry(KeyAppid, <<7, 0>>), IntEntry(KeyAppid, <<2048, 65280>>) }

DistinctKeys(entries) ==
    \A i, j \in 1..Len(entries) : i # j => entries[i].key # entries[j].key

MapChoices == {m \in SeqsUpTo(EntryChoices, MaxEntries) : DistinctKeys(m)}

\* The maps complete before the one that holds the entry of unknown type
BrokenPreChoices == { <<>>, << <<StrEntry(KeyAppName, <<"G">>)>> >> }

\* A wrapped file whose map number Len(pre) has, after its entries, an entry of
\* the unknown type 0x03 with key "k" followed by the bytes of tail
WriteBroken(pre, entries, tail) ==
    WrappedHeader \o WriteMaps(pre, 0)
        \o <<0>> \o WriteStr(<<DigitChars[Len(pre) + 1]>>) \o WriteEntries(entries)
        \o <<3>> \o WriteStr(<<"k">>) \o tail

InitVdf ==
    /\ fsExists = Roots
    /\ fsDenied = {}
    /\ fsRegistry = <<STEAM_BASE, Lib2>>
    /\ fsCompat = [r \in Roots |-> "ok"]
    /\ fsDirs = [r \in Roots |-> <<>>]
    /\ fsManifests = [r \in Roots |-> <<>>]
    /\ dbFile = StoreFile("object", EmptyStore)
    /\ InitWindow
    /\ dedupIn = <<>>
    /\ dedupOut = <<>>
    /\ vdfPc = "raw"
    /\ vdfOut = [raised |-> FALSE, items |-> <<>>]
    /\ \/ \E head \in {<<>>, WrappedHeader}, body \in SeqsUpTo(GarbageBytes, MaxVdfLen) :
            /\ vdfShape = [kind |-> "garbage"]
            /\ fsShortcuts = head \o body
       \/ \E maps \in SeqsUpTo(MapChoices, MaxMaps) :
            /\ vdfShape = [kind |-> "canonical", maps |-> maps]
            /\ fsShortcuts = WriteFile(maps)
       \/ \E pre \in BrokenPreChoices, entries \in MapChoices,
             tail \in SeqsUpTo({0, 1, 8, 97}, MaxTail) :
            /\ vdfShape = [kind |-> "broken", pre |-> pre, entries |-> entries]
            /\ fsShortcuts = WriteBroken(pre, entries, tail)

\* items = NonSteamManager.parse_binary_vdf(data), line 240
ParseVdf ==
    /\ vdfPc = "raw"
    /\ vdfOut' = parse_binary_vdf(fsShortcuts)
    /\ vdfPc' = "parsed"
    /\ UNCHANGED <<fsVars, dbFile, runVars, signals, uiVars, edits, dedupVars, vdfShape>>

\* the loop of lines 243-259 over the items
DeriveIds ==
    /\ vdfPc = "parsed"
    /\ ~vdfOut.raised
    /\ non_steam_games' = MapItems(EmptyMap, vdfOut.items)
    /\ vdfPc' = "mapped"
    /\ UNCHANGED <<fsVars, dbFile, pc, db, api_cache, installed_games, libraries, libIdx,
                   dirs, prefixes, fetchLog, saves, emitted>>
    /\ UNCHANGED <<signals, uiVars, edits, dedupVars, vdfShape, vdfOut>>

NextVdf ==
    \/ ParseVdf
    \/ DeriveIds

SpecVdf == InitVdf /\ [][NextVdf]_vars

----------------------------------------------------------------------------
(* The loop of get_non_steam_ids on decoded records of every kind: with and
   without AppName, Exe and appid, an appid above 2^32, and values of a type the
   record is not meant to have *)

Entry(key, val) == [key |-> key, val |-> val]

NameOptions ==
    { <<>>, <<Entry(KeyAppName, StrVal(<<>>))>>, <<Entry(KeyAppName, StrVal(<<"G">>))>>,
      <<Entry(KeyAppName, StrVal(<<"H">>))>> }

ExeOptions ==
    { <<>>, <<Entry(KeyExe, StrVal(<<>>))>>, <<Entry(KeyExe, StrVal(<<"/", "x">>))>>,
      <<Entry(KeyExe, IntVal(<<5, 0>>))>> }

\* 7, 2^32 + 7, 2^31, and the text "7"
AppidOptions ==
    { <<>>, <<Entry(KeyAppid, IntVal(<<7, 0>>))>>, <<Entry(KeyAppid, IntVal(<<7, 0, 1>>))>>,
      <<Entry(KeyAppid, IntVal(<<0, 32768>>))>>, <<Entry(KeyAppid, StrVal(<<"7">>))>> }

ItemChoices == {n \o e \o a : n \in NameOptions, e \in ExeOptions, a \in AppidOptions}

InitIds ==
    /\ fsExists = Roots
    /\ fsDenied = {}
    /\ fsRegistry = <<STEAM_BASE, Lib2>>
    /\ fsCompat = [r \in Roots |-> "ok"]
    /\ fsDirs = [r \in Roots |-> <<>>]
    /\ fsManifests = [r \in Roots |-> <<>>]
    /\ fsShortcuts = <<>>
    /\ dbFile = StoreFile("object", EmptyStore)
    /\ InitWindow
    /\ dedupIn = <<>>
    /\ dedupOut = <<>>
    /\ vdfPc = "parsed"
    /\ vdfShape = [kind |-> "items"]
    /\ \E items \in SeqsUpTo(ItemChoices, MaxItems) :
         vdfOut = [raised |-> FALSE, items |-> items]

SpecIds == InitIds /\ [][DeriveIds]_vars

----------------------------------------------------------------------------
(* The start of a scan for registry files of every content: paths that exist,
   that do not, whose stat is denied, and the same directory written with a
   trailing separator or in another case *)

UpperL == <<"/", "L">>

\* The directories that can be library roots here
LibraryPaths == {STEAM_BASE, Lib2, UpperL}

\* /l/ is /l with a trailing separator, /L differs from /l by case, /g does not
\* exist, /d cannot be looked at
RegistryTexts == {STEAM_BASE, Lib2, <<"/", "l", "/">>, UpperL, <<"/", "g">>, <<"/", "d">>}

InitLibraries ==
    /\ fsExists \in {{STEAM_BASE, Lib2}, {STEAM_BASE, Lib2, UpperL}}
    /\ fsDenied \in {{}, {<<"/", "d">>}}
    /\ fsRegistry \in SeqsUpTo(RegistryTexts, MaxRegistry)
    /\ fsCompat = [r \in LibraryPaths |-> "ok"]
    /\ fsDirs = [r \in LibraryPaths |-> <<>>]
    /\ fsManifests = [r \in LibraryPaths |-> <<>>]
    /\ fsShortcuts = <<>>
    /\ dbFile = StoreFile("object", EmptyStore)
    /\ InitWindow
    /\ dedupIn = <<>>
    /\ dedupOut = <<>>
    /\ VdfOff

NextLibraries ==
    \/ LoadDb
    \/ BuildIndex

SpecLibraries == InitLibraries /\ [][NextLibraries]_vars

----------------------------------------------------------------------------
(* Scans of three roots that hold manifests of the same appid, the roots in
   every order the registry can give them *)

\* What one root's steamapps can hold for appid 7: nothing, one manifest, one
\* without a name, one that cannot be read, one without an appid, two manifests
RootManifestChoices ==
    { <<>>,
      <<Manifest(TRUE, TRUE, A7, TRUE, NameBeta)>>,
      <<Manifest(TRUE, TRUE, A7, TRUE, NameApple)>>,
      <<Manifest(TRUE, TRUE, A7, FALSE, <<>>)>>,
      <<Manifest(FALSE, TRUE, A7, TRUE, NameZeta)>>,
      <<Manifest(TRUE, FALSE, <<>>, TRUE, NameZeta)>>,
      <<Manifest(TRUE, TRUE, A7, TRUE, NameZeta), Manifest(TRUE, TRUE, A7, TRUE, NameAlpha)>> }

\* Prefix directories: 7 under two roots next to an ignored one, or 8, which no
\* manifest names, next to 7
RootDirChoices ==
    { [r \in LibraryPaths |-> IF r = STEAM_BASE
                                  THEN <<DirEntry(A7, TRUE, TRUE, TRUE),
                                         DirEntry(A0, TRUE, TRUE, TRUE)>>
                                  ELSE <<DirEntry(A7, TRUE, TRUE, TRUE)>>],
      [r \in LibraryPaths |-> IF r = STEAM_BASE
                                  THEN <<DirEntry(A8, TRUE, TRUE, TRUE)>>
                                  ELSE <<DirEntry(A7, TRUE, TRUE, TRUE)>>] }

InitManifests ==
    /\ fsExists = LibraryPaths
    /\ fsDenied = {}
    /\ fsRegistry \in SeqsUpTo({Lib2, UpperL}, MaxRegistry)
    /\ fsCompat = [r \in LibraryPaths |-> "ok"]
    /\ fsDirs \in RootDirChoices
    /\ fsManifests \in [LibraryPaths -> RootManifestChoices]
    /\ fsShortcuts = <<>>
    /\ dbFile = StoreFile("object", EmptyStore)
    /\ InitWindow
    /\ dedupIn = <<>>
    /\ dedupOut = <<>>
    /\ VdfOff

SpecManifests == InitManifests /\ [][Next]_vars

----------------------------------------------------------------------------
(* Properties *)

Last(q) == q[Len(q)]

\* The lists a scan has handed over: emitted and waiting, or taken by the window
Delivered == Range(signals) \cup (IF btn_refresh THEN {all_prefixes} ELSE {})

\* The ignore set as the specification gives it
ClaimIgnoreSet ==
    { <<"0">>,
      <<"2", "2", "8", "9", "8", "0">>,
      <<"1", "0", "7", "0", "5", "6", "0">>,
      <<"1", "3", "9", "1", "1", "1", "0">>,
      <<"1", "6", "2", "8", "3", "5", "0">> }

\* The appids with an eligible prefix directory: numeric name, not ignored,
\* readable, under the accessible compatdata of a scanned root
EligibleAppids ==
    { fsDirs[libraries[l]][i].name :
        <<l, i>> \in { <<m, j>> \in (1..Len(libraries)) \X (1..MaxDirs + 1) :
            /\ fsCompat[libraries[m]] = "ok"
            /\ j <= Len(fsDirs[libraries[m]])
            /\ fsDirs[libraries[m]][j].is_dir
            /\ fsDirs[libraries[m]][j].readable
            /\ IsDigit(fsDirs[libraries[m]][j].name)
            /\ fsDirs[libraries[m]][j].name \notin ClaimIgnoreSet } }

\* C1: no record of a list emitted by a scan has an appid of the ignore set
\* {0, 228980, 1070560, 1391110, 1628350}, whatever manifest, shortcut or
\* override-store entries that appid has.
C1_IgnoredNeverListed ==
    \A L \in Delivered : \A i \in 1..Len(L) : L[i].appid \notin ClaimIgnoreSet

\* C1 witness: a scan has emitted its list where a readable directory "0" was
\* listed under an accessible root and "0" has a manifest, a shortcut and a
\* custom-name entry
C1_Witness ==
    /\ Delivered # {}
    /\ \E r \in Range(libraries) :
         /\ fsCompat[r] = "ok"
         /\ \E i \in 1..Len(fsDirs[r]) :
              fsDirs[r][i].name = A0 /\ fsDirs[r][i].is_dir /\ fsDirs[r][i].readable
    /\ A0 \in DOMAIN installed_games
    /\ A0 \in DOMAIN non_steam_games
    /\ A0 \in DOMAIN db.custom_names

\* C2: the emitted list holds exactly one record for each appid that has an
\* eligible prefix directory, and no two of its records share an appid.
C2_OneRecordPerEligibleAppid ==
    \A L \in Delivered :
        /\ {L[i].appid : i \in 1..Len(L)} = EligibleAppids
        /\ \A i, j \in 1..Len(L) : i # j => L[i].appid # L[j].appid

\* C4: in an emitted list, of two records the earlier is installed or the later is
\* not, and with equal status the earlier's lowercased name is not greater.
C4_InstalledFirstThenByName ==
    \A L \in Delivered : \A i, j \in 1..Len(L) :
        i < j =>
            /\ L[i].is_installed \/ ~L[j].is_installed
            /\ (L[i].is_installed = L[j].is_installed
                    => ~StrLess(LowerStr(L[j].name), LowerStr(L[i].name)))

\* C4 witness: an emitted list of two records of equal status whose order by
\* lowercased name is the reverse of their order by exact name
C4_Witness ==
    \E L \in Delivered :
        /\ Len(L) = 2
        /\ L[1].is_installed = L[2].is_installed
        /\ StrLess(L[2].name, L[1].name)
        /\ StrLess(LowerStr(L[1].name), LowerStr(L[2].name))

\* The records a scan has produced: appended so far, or handed over
Produced == Range(prefixes) \cup UNION {Range(L) : L \in Delivered}

\* C5: a record's is_installed is custom_status[appid] when the store has that
\* key, else true when the appid is in the manifest map or the shortcut table,
\* else false.
C5_StatusPrecedence ==
    \A p \in Produced :
        p.is_installed =
            IF p.appid \in DOMAIN db.custom_status THEN db.custom_status[p.appid]
            ELSE (p.appid \in DOMAIN installed_games \/ p.appid \in DOMAIN non_steam_games)

\* C5 witness: a record made uninstalled by custom_status although a manifest
\* names its appid
C5_Witness ==
    \E p \in Produced :
        /\ p.appid \in DOMAIN db.custom_status
        /\ ~db.custom_status[p.appid]
        /\ p.appid \in DOMAIN installed_games
        /\ ~p.is_installed

\* The step appends a record / calls fetch_steam_name
Appends == Len(prefixes') = Len(prefixes) + 1
Fetches == Len(fetchLog') = Len(fetchLog) + 1

\* C6: the name of a record comes from the first of custom_names, manifest map,
\* shortcut table, api_cache, remote lookup that has the appid when its directory
\* is visited; the lookup is called only for an appid none of the four has.
C6_NamePrecedence ==
    [][ /\ Fetches =>
            LET a == Last(fetchLog').appid
            IN  /\ a \notin DOMAIN db.custom_names
                /\ a \notin DOMAIN installed_games
                /\ a \notin DOMAIN non_steam_games
                /\ a \notin DOMAIN api_cache
        /\ Appends =>
            LET p == Last(prefixes')
                a == p.appid
            IN  IF a \in DOMAIN db.custom_names THEN p.name = db.custom_names[a] /\ ~Fetches
                ELSE IF a \in DOMAIN installed_games
                    THEN p.name = installed_games[a] /\ ~Fetches
                ELSE IF a \in DOMAIN non_steam_games
                    THEN p.name = non_steam_games[a] /\ ~Fetches
                ELSE IF a \in DOMAIN api_cache THEN p.name = api_cache[a] /\ ~Fetches
                ELSE /\ Fetches
                     /\ Last(fetchLog').appid = a
                     /\ p.name = Last(fetchLog').fetched.val ]_vars

\* C6 witness: one record named by custom_names over a manifest and a cache entry,
\* another named by a lookup
C6_Witness ==
    /\ \E p \in Range(prefixes) :
         /\ p.appid \in DOMAIN db.custom_names
         /\ p.appid \in DOMAIN installed_games
         /\ p.appid \in DOMAIN api_cache
         /\ p.name = db.custom_names[p.appid]
    /\ \E p \in Range(prefixes), k \in 1..Len(fetchLog) :
         fetchLog[k].appid = p.appid /\ fetchLog[k].fetched.val = p.name

\* A lookup that returned a name: not the placeholder of a failure
Succeeded(e) == e.fetched.isstr /\ e.fetched.val # Placeholder(e.appid)

\* C7: after the scan's save, the store holds api_cache[appid] = the returned name
\* for every lookup of the scan that succeeded, whatever the name.
C7_SuccessfulLookupCached ==
    pc \in {"saved", "done"} =>
        \A k \in 1..Len(fetchLog) :
            Succeeded(fetchLog[k]) =>
                /\ fetchLog[k].appid \in DOMAIN dbFile.data.api_cache
                /\ dbFile.data.api_cache[fetchLog[k].appid] = fetchLog[k].fetched.val

----------------------------------------------------------------------------
(* Properties of the deduplication step *)

InputOf(a) == {i \in 1..Len(dedupIn) : dedupIn[i].appid = a}
OutputOf(a) == {i \in 1..Len(dedupOut) : dedupOut[i].appid = a}
FirstOf(a) == CHOOSE i \in InputOf(a) : \A j \in InputOf(a) : i <= j

\* C3: deduplication leaves one record per appid; when the records of an appid
\* include an installed and an uninstalled one, in either order, the record left
\* is installed; when the first record is installed or none is, the first is left.
C3_DedupInstalledWins ==
    dedupOut # <<>> =>
        \A a \in {dedupIn[i].appid : i \in 1..Len(dedupIn)} :
            /\ Cardinality(OutputOf(a)) = 1
            /\ LET kept == dedupOut[CHOOSE i \in OutputOf(a) : TRUE]
                   someInstalled == \E i \in InputOf(a) : dedupIn[i].is_installed
               IN  /\ someInstalled => kept.is_installed
                   /\ (dedupIn[FirstOf(a)].is_installed \/ ~someInstalled)
                          => kept = dedupIn[FirstOf(a)]

\* C3 witness: deduplicated input with an uninstalled record first and an
\* installed record of the same appid later, and another with the order reversed
C3_Witness ==
    /\ dedupOut # <<>>
    /\ \E i, j \in 1..Len(dedupIn) :
         /\ i < j
         /\ dedupIn[i].appid = dedupIn[j].appid
         /\ ~dedupIn[i].is_installed
         /\ dedupIn[j].is_installed
    /\ \E i, j \in 1..Len(dedupIn) :
         /\ i < j
         /\ dedupIn[i].appid = dedupIn[j].appid
         /\ dedupIn[i].is_installed
         /\ ~dedupIn[j].is_installed

----------------------------------------------------------------------------
(* Properties of a session *)

FailedLookup(e) == e.fetched = Fetched(TRUE, Placeholder(e.appid))

C8_FailStep ==
    (Fetches /\ FailedLookup(Last(fetchLog'))) =>
        /\ Appends
        /\ Last(prefixes').appid = Last(fetchLog').appid
        /\ Last(prefixes').name = Placeholder(Last(fetchLog').appid)
        /\ api_cache' = api_cache
        /\ pc' = "walk"
        /\ dirs' = Tail(dirs)

\* the step that visits, for the first time in this scan, the directory of an
\* appid whose lookups all failed in the scan before and that no other source names
C8_RetryStep ==
    ( /\ pc = "walk"
      /\ dirs # <<>>
      /\ dirs' # dirs
      /\ Head(dirs).entry.readable
      /\ Head(dirs).entry.name \in lastFailed
      /\ Head(dirs).entry.name \notin DOMAIN db.custom_names
      /\ Head(dirs).entry.name \notin DOMAIN installed_games
      /\ Head(dirs).entry.name \notin DOMAIN non_steam_games
      /\ \A k \in 1..Len(fetchLog) : fetchLog[k].appid # Head(dirs).entry.name )
        => (Fetches /\ Last(fetchLog').appid = Head(dirs).entry.name)

C9_OverridesSurvive ==
    [][ (pc = "start" /\ pc' = "loaded" /\ edits = 0) =>
            /\ \A a \in DOMAIN userNames :
                 a \in DOMAIN db'.custom_names /\ db'.custom_names[a] = userNames[a]
            /\ \A a \in DOMAIN userStatus :
                 a \in DOMAIN db'.custom_status /\ db'.custom_status[a] = userStatus[a]
      ]_vars

\* C10: a scan emits no finished event before its end and exactly one at its end,
\* whatever errors occur.
C10_OneFinishedEvent ==
    /\ emitted <= 1
    /\ emitted = 1 => pc = "done"
    /\ pc \in {"done", "crashed"} => emitted = 1

----------------------------------------------------------------------------
(* Properties of error handling *)

\* The appids at whose directory the walk raised: the lookup returned no str
Errored == {fetchLog[k].appid : k \in {j \in 1..Len(fetchLog) : ~fetchLog[j].fetched.isstr}}

\* C11: when handling a prefix directory raises, the walk goes on with the next
\* directory: every eligible directory of another appid, in the same root and in
\* later roots, has a record in the list the scan emits.
C11_WalkContinuesAfterError ==
    \A L \in Delivered :
        \A a \in EligibleAppids \ Errored : \E i \in 1..Len(L) : L[i].appid = a

\* C12: a scan that loads a store file that is missing, is not JSON, is no JSON
\* object or cannot be read gets the empty-maps default and goes on.
C12_LoadFallsBackToDefault ==
    [][ (pc = "start" /\ pc' # "start" /\ dbFile.kind # "object")
            => (pc' = "loaded" /\ db' = EmptyStore) ]_vars

----------------------------------------------------------------------------
(* Properties of shortcut decoding *)

\* The dict a map of the file stands for: its entries in order, each 0x01 entry a
\* str, each 0x02 entry the number written
ExpectedDict(entries) ==
    [j \in 1..Len(entries) |->
        [key |-> entries[j].key,
         val |-> IF entries[j].t = "str" THEN StrVal(entries[j].val)
                                         ELSE IntVal(entries[j].val)]]

\* C13: for every buffer, parse_binary_vdf returns its list (of maps) and no
\* exception leaves it.
C13_ParserNeverRaises ==
    vdfPc \in {"parsed", "mapped"} =>
        /\ ~vdfOut.raised
        /\ \A i \in 1..Len(vdfOut.items) : \A j \in 1..Len(vdfOut.items[i]) :
             vdfOut.items[i][j].val.t \in {"str", "int", "map"}

\* C13 witness: a buffer parsed whose string value has no terminator, so that
\* read_string raised inside parse_map in the last attempt made
C13_Witness ==
    /\ vdfPc = "parsed"
    /\ vdfShape.kind = "garbage"
    /\ parse_map(fsShortcuts, 0).err

\* C14: for a buffer of the canonical wrapped shape with N maps of 0x01 and 0x02
\* entries, parse_binary_vdf returns N maps, the i-th with the entries of the
\* i-th map of the buffer: text for 0x01, the unsigned little-endian number of
\* the four bytes for 0x02.
C14_CanonicalDecoded ==
    (vdfPc \in {"parsed", "mapped"} /\ vdfShape.kind = "canonical") =>
        /\ ~vdfOut.raised
        /\ Len(vdfOut.items) = Len(vdfShape.maps)
        /\ \A i \in 1..Len(vdfShape.maps) :
             vdfOut.items[i] = ExpectedDict(vdfShape.maps[i])

\* C14 witness: a parsed canonical buffer of two maps, one of them with a text
\* entry and a number above 2^31
C14_Witness ==
    /\ vdfPc = "parsed"
    /\ vdfShape.kind = "canonical"
    /\ Len(vdfShape.maps) = 2
    /\ \E i \in 1..2 : \E j, k \in 1..Len(vdfShape.maps[i]) :
         /\ vdfShape.maps[i][j].t = "str"
         /\ vdfShape.maps[i][k].t = "int"
         /\ vdfShape.maps[i][k].val[2] >= 32768
    /\ Len(vdfOut.items) = 2

\* C15: when a map holds a type byte that is none of 0x00, 0x01, 0x02, 0x08 after
\* k well-formed entries, no exception is raised, the maps complete before it are
\* returned, and the map returned for it holds exactly those k entries.
C15_UnknownTypeKeepsPartialMap ==
    (vdfPc \in {"parsed", "mapped"} /\ vdfShape.kind = "broken") =>
        /\ ~vdfOut.raised
        /\ Len(vdfOut.items) > Len(vdfShape.pre)
        /\ \A i \in 1..Len(vdfShape.pre) : vdfOut.items[i] = ExpectedDict(vdfShape.pre[i])
        /\ vdfOut.items[Len(vdfShape.pre) + 1] = ExpectedDict(vdfShape.entries)

----------------------------------------------------------------------------
(* Properties of the id derivation *)

Items == vdfOut.items
HasInt(item, key) == DictHas(item, key) /\ DictGet(item, key, StrVal(<<>>)).t = "int"
HasText(item, key) ==
    /\ DictHas(item, key)
    /\ DictGet(item, key, StrVal(<<>>)).t = "str"
    /\ DictGet(item, key, StrVal(<<>>)).v # <<>>
NameOf(item) == DictGet(item, KeyAppName, StrVal(<<>>)).v

\* The decimal text of v mod 2^32 for the appid values of the records
ClaimIdText(v) ==
    CASE v = <<7, 0>> -> <<"7">>
      [] v = <<7, 0, 1>> -> <<"7">>
      [] v = <<0, 32768>> -> <<"2", "1", "4", "7", "4", "8", "3", "6", "4", "8">>

\* The decimal text of crc32(utf8(Exe + AppName)) | 0x80000000 for Exe "/x"
ClaimCrcText(name) ==
    CASE name = <<"G">> -> <<"3", "2", "7", "2", "5", "3", "9", "9", "0", "6">>
      [] name = <<"H">> -> <<"3", "5", "5", "1", "6", "5", "0", "4", "5", "1">>

ExplicitId(i) == ClaimIdText(DictGet(Items[i], KeyAppid, StrVal(<<>>)).v)
Derives(i) == HasText(Items[i], KeyAppName) /\ HasText(Items[i], KeyExe)

\* C16: for every record with an explicit appid v the table has the decimal text
\* of v mod 2^32, mapped to the AppName of that record (of the last record with
\* that id when several have it), with or without name and executable, also for
\* the records that come after others.
C16_ExplicitIdRegistered ==
    vdfPc = "mapped" =>
        \A i \in 1..Len(Items) :
            HasInt(Items[i], KeyAppid) =>
                /\ ExplicitId(i) \in DOMAIN non_steam_games
                /\ \/ non_steam_games[ExplicitId(i)] = NameOf(Items[i])
                   \/ \E j \in (i + 1)..Len(Items) :
                        HasInt(Items[j], KeyAppid) /\ ExplicitId(j) = ExplicitId(i)

\* C17: the table has the entry crc32(utf8(Exe + AppName)) | 0x80000000 -> AppName
\* of a record exactly when the record's AppName and Exe are both non-empty,
\* whatever its appid: every key of the table is the explicit id of a record or
\* the derived id of such a record, and a record adds at most two keys.
C17_DerivedIdRegistered ==
    vdfPc = "mapped" =>
        /\ \A i \in 1..Len(Items) :
             Derives(i) =>
                 /\ ClaimCrcText(NameOf(Items[i])) \in DOMAIN non_steam_games
                 /\ non_steam_games[ClaimCrcText(NameOf(Items[i]))] = NameOf(Items[i])
        /\ \A k \in DOMAIN non_steam_games :
             \E i \in 1..Len(Items) :
                 \/ HasInt(Items[i], KeyAppid) /\ k = ExplicitId(i)
                 \/ Derives(i) /\ k = ClaimCrcText(NameOf(Items[i]))
        /\ \A i \in 1..Len(Items) :
             Cardinality(DOMAIN MapItems(EmptyMap, SubSeq(Items, 1, i))
                            \ DOMAIN MapItems(EmptyMap, SubSeq(Items, 1, i - 1))) <= 2

----------------------------------------------------------------------------
(* Properties of repeated scans *)

Appids(L) == {L[i].appid : i \in 1..Len(L)}

\* Two lists with the same appids, paths and installed flags, whose names differ
\* only where the first has the placeholder, and which are equal when no name
\* differs
SameButPlaceholders(L1, L2) ==
    /\ Len(L1) = Len(L2)
    /\ Appids(L1) = Appids(L2)
    /\ \A i \in 1..Len(L1), j \in 1..Len(L2) :
         L1[i].appid = L2[j].appid =>
             /\ L1[i].path = L2[j].path
             /\ L1[i].is_installed = L2[j].is_installed
             /\ L1[i].name = L2[j].name \/ L1[i].name = Placeholder(L1[i].appid)
    /\ (\A i \in 1..Len(L1), j \in 1..Len(L2) :
            L1[i].appid = L2[j].appid => L1[i].name = L2[j].name) => L1 = L2

\* C18: a scan that follows another with no change to the filesystem and none to
\* the store but the scans' own writes emits the list the scan before emitted,
\* but for the names of records that had the placeholder name.
C18_RescanSameList ==
    (scans >= 2 /\ clicks = 0 /\ edits = 0 /\ signals # <<>>)
        => SameButPlaceholders(all_prefixes, Last(signals))

----------------------------------------------------------------------------
(* Properties of the library list *)

\* The text names a directory that exists: a trailing separator names the same
\* directory, another case another one
RECURSIVE StripSeparators(_)
StripSeparators(text) ==
    IF Len(text) > 1 /\ text[Len(text)] = "/"
        THEN StripSeparators(SubSeq(text, 1, Len(text) - 1))
        ELSE text

OnDisk(text) == StripSeparators(text) \in fsExists

\* The places of the registry whose path exists on disk and whose text is not the
\* primary root's and did not occur before
ClaimAppended ==
    {k \in 1..Len(fsRegistry) :
        /\ OnDisk(fsRegistry[k])
        /\ fsRegistry[k] # STEAM_BASE
        /\ \A j \in 1..(k - 1) : fsRegistry[j] # fsRegistry[k]}

\* C19: the library list is the primary root followed by one entry for every
\* registry path that exists on disk and whose path value is not yet in the
\* list, where texts that differ (also only by a trailing separator or by case)
\* are different values.
C19_LibrariesByPathValue ==
    pc = "walk" =>
        /\ Len(libraries) = 1 + Cardinality(ClaimAppended)
        /\ \A k \in ClaimAppended :
             \E i \in 2..Len(libraries) : libraries[i] = StripSeparators(fsRegistry[k])

----------------------------------------------------------------------------
(* Properties of the store write *)

\* C20: a scan calls save_db once: after the last prefix directory and the last
\* lookup, before it emits finished, and it has done so when it ends.
C20_StoreWrittenOnceAtEnd ==
    [][ scans' = scans =>
            /\ saves' # saves =>
                 /\ saves = 0 /\ saves' = 1
                 /\ dirs = <<>> /\ libIdx = Len(libraries)
                 /\ emitted = 0
            /\ Fetches => saves = 0
            /\ emitted' # emitted => saves = 1
            /\ (pc' # pc /\ pc' \in {"done", "crashed"}) => saves' = 1 ]_vars

----------------------------------------------------------------------------
(* Properties of the refresh control *)

\* The newest worker has been started and its finished event is not handled yet
Outstanding == pc # "done" \/ signals # <<>>

\* C21: while a scan is outstanding the REFRESH button is disabled, and a worker
\* is started only when no scan is outstanding.
C21_OneScanAtATime ==
    /\ [](Outstanding => ~btn_refresh)
    /\ [][scans' # scans => ~Outstanding]_vars

C21_Witness == scans = 2 /\ pc = "walk" /\ ~btn_refresh /\ saves = 0

----------------------------------------------------------------------------
(* Properties of the manifest map *)

\* The manifests of the k-th library that can be read and have an appid field
Recognised(k) ==
    LET files == fsManifests[libraries[k]]
    IN  {files[i] : i \in {j \in 1..Len(files) :
            files[j].readable /\ files[j].hasAppid /\ IsDigit(files[j].appid)}}

\* The libraries with such a manifest for the appid
RootsNaming(appid) ==
    {k \in 1..Len(libraries) : \E acf \in Recognised(k) : acf.appid = appid}

LastRoot(appid) == CHOOSE k \in RootsNaming(appid) : \A j \in RootsNaming(appid) : j <= k

EntryName(acf) == IF acf.hasName THEN acf.name ELSE Placeholder(acf.appid)

Indexed == pc \in {"walk", "saved", "done"}

\* C22: once the index is built, installed_games has for every appid the entry of
\* a manifest of the last library, in the order of the libraries list, that has
\* one for it; it is built before a directory is visited and not changed after.
C22_LastRootWins ==
    /\ [](Indexed =>
            \A appid \in {A0, A7, A8} :
                IF RootsNaming(appid) = {}
                    THEN appid \notin DOMAIN installed_games
                    ELSE /\ appid \in DOMAIN installed_games
                         /\ \E acf \in Recognised(LastRoot(appid)) :
                              /\ acf.appid = appid
                              /\ installed_games[appid] = EntryName(acf))
    /\ []((libIdx > 0 \/ prefixes # <<>> \/ fetchLog # <<>>) => Indexed)
    /\ [][Indexed /\ scans' = scans => installed_games' = installed_games]_vars

\* 7 has a manifest under the second and under the third library, with different
\* names, and its directory under the first library has been visited
C22_Witness ==
    /\ Indexed
    /\ Len(libraries) = 3
    /\ {2, 3} \subseteq RootsNaming(A7)
    /\ \A a \in Recognised(2), b \in Recognised(3) : EntryName(a) # EntryName(b)
    /\ \E i \in 1..Len(prefixes) : prefixes[i].appid = A7

----------------------------------------------------------------------------
(* Properties of the records of one appid *)

\* The positions in prefixes of the records of an appid
RecordsOf(appid) == {i \in 1..Len(prefixes) : prefixes[i].appid = appid}

\* The positions in the libraries list of the roots these records come from
RootsOf(appid) ==
    {k \in 1..Len(libraries) : \E i \in RecordsOf(appid) : prefixes[i].path[1] = libraries[k]}

First(S) == CHOOSE x \in S : \A y \in S : x <= y

\* C23: the records one scan appends for an appid have the same is_installed, and
\* the emitted list has for the appid the first of them, the one of the earliest
\* library, with its path.
C23_EarliestRootKept ==
    /\ \A i, j \in 1..Len(prefixes) :
         prefixes[i].appid = prefixes[j].appid
             => prefixes[i].is_installed = prefixes[j].is_installed
    /\ (pc = "done" /\ signals # <<>>) =>
         \A i \in 1..Len(prefixes) :
            LET appid == prefixes[i].appid
                kept == {n \in 1..Len(Head(signals)) : Head(signals)[n].appid = appid}
            IN  /\ Cardinality(kept) = 1
                /\ \A n \in kept :
                     /\ Head(signals)[n] = prefixes[First(RecordsOf(appid))]
                     /\ Head(signals)[n].path[1] = libraries[First(RootsOf(appid))]

\* An appid has a record from each of two roots, and the list has been emitted
C23_Witness ==
    /\ pc = "done" /\ signals # <<>>
    /\ \E i, j \in 1..Len(prefixes) :
         /\ i < j
         /\ prefixes[i].appid = prefixes[j].appid
         /\ prefixes[i].path # prefixes[j].path
         /\ prefixes[i].is_installed

====
